---- MODULE Spec2Model ----
(***************************************************************************)
(* Client-side flows of the crop disease detection application:            *)
(*   - the chat widget        (src/static/js/chatbot.js)                   *)
(*   - the uploader/renderer  (src/unnamed/part_000)                       *)
(*                                                                         *)
(* A text is a sequence of chunks: a chunk is one whitespace character or  *)
(* a string that begins and ends with a non-whitespace character.  A       *)
(* JavaScript value is a record [t |-> its type, v |-> its payload].       *)
(***************************************************************************)
EXTENDS Integers, Sequences, FiniteSets, TLC

VARIABLES
    storage,        \* localStorage["crop_chat_session"] (a JS value: null or string)
    sessionId,      \* const sessionId                      chatbot.js:5
    chatHistory,    \* children of #chatHistory: <<[who, text]>>
    chatInput,      \* chatInput.value
    quickReplies,   \* buttons of #quickReplies: <<label>>
    chatReqs,       \* sendMessage invocations, in call order
    loaded,         \* the window load event has fired
    sessionAtStart, \* the storage value when the script started (history)
    selectedFile,   \* let selectedFile                    part_000:7
    readers,        \* FileReaders still reading, in start order: <<file>>
    preview,        \* content of #preview
    analyzeDisabled,\* analyzeBtn.disabled
    hover,          \* dropArea carries the class "hover"
    uploadReqs,     \* invocations of the analyze click handler that have not finished, in call order
    results,        \* content of #results
    lastShown,      \* the result that was rendered last (history)
    lastArrival,    \* what became of the upload response that arrived last (history)
    lastEvent       \* the send or file-selection event handled last (history)

chatVars == <<storage, sessionId, chatHistory, chatInput, quickReplies, chatReqs, loaded, sessionAtStart>>

uploadVars == <<selectedFile, readers, preview, analyzeDisabled, hover, uploadReqs, results, lastShown, lastArrival>>

vars == <<chatVars, uploadVars, lastEvent>>

----------------------------------------------------------------------------
(* Bounds *)

MaxSends == 2

----------------------------------------------------------------------------
(* JavaScript values and texts *)

Whitespace == {" ", "\t"}

Undefined == [t |-> "undefined", v |-> <<>>]

Null == [t |-> "null", v |-> <<>>]

Str(s) == [t |-> "string", v |-> s]

Arr(a) == [t |-> "array", v |-> a]

Falsy(x) == x.t \in {"undefined", "null"} \/ (x.t = "string" /\ x.v = <<>>)

\* el.innerText = x : DOMString conversion, null becomes the empty string
ToText(x) == IF x.t = "string" THEN x.v ELSE IF x.t = "null" THEN <<>> ELSE <<x.t>>

RECURSIVE TrimStart(_)
TrimStart(s) == IF s # <<>> /\ Head(s) \in Whitespace THEN TrimStart(Tail(s)) ELSE s

RECURSIVE TrimEnd(_)
TrimEnd(s) == IF s # <<>> /\ s[Len(s)] \in Whitespace THEN TrimEnd(SubSeq(s, 1, Len(s) - 1)) ELSE s

\* String.prototype.trim
trim(s) == TrimEnd(TrimStart(s))

\* "--" stands for the dash U+2014 of the source text
WelcomeText == <<"Hello -- I can help with crop care, uploading, or disease symptoms. Try a quick suggestion.">>

UploadLabel == <<"How to upload a photo?">>

TomatoLabel == <<"Tomato care tips">>

BootstrapReplies == <<UploadLabel, TomatoLabel>>

----------------------------------------------------------------------------
(* Inputs *)

\* what the user may leave in the chat input
InputTexts == {<<>>, <<" ">>, <<" ", "hi", "\t">>}

Keys == {"Enter", "a"}

StorageValues == {Null, Str(<<"sess-1">>)}

\* what fetch("/api/chat") and res.json() can produce.
\*   net  : "fail" when fetch rejects (no response at all)
\*   ok   : res.ok (2xx); the code never reads it
\*   body : "json" when the body parses, "garbage" when res.json() rejects
\*   data : the parsed value, an object [reply, quick_replies] or null
ChatResp(net, ok, body, data) == [net |-> net, ok |-> ok, body |-> body, data |-> data]

ChatData(reply, qr) == [t |-> "object", reply |-> reply, quick_replies |-> qr]

NullData == [t |-> "null", reply |-> Undefined, quick_replies |-> Undefined]

NoResp == ChatResp("none", FALSE, "none", NullData)

ReplyText == <<"Water weekly">>

\* how fetch can settle: rejected, or resolved with the status line of a response
ChatHeads ==
    { ChatResp("fail", FALSE, "none", NullData),
      ChatResp("ok", TRUE, "none", NullData),
      ChatResp("ok", FALSE, "none", NullData) }

\* the bodies that can follow the status line: an error page or an error object
\* after a non-2xx status, a reply after a 2xx status
ChatBodies(head) ==
    IF head.ok
    THEN { [head EXCEPT !.body = "json", !.data = ChatData(Str(ReplyText), Arr(<<>>))],
           [head EXCEPT !.body = "json", !.data = ChatData(Str(ReplyText), Arr(<<<<" ", "Soil", " ">>, <<>>>>))] }
    ELSE { [head EXCEPT !.body = "garbage"],
           [head EXCEPT !.body = "json", !.data = ChatData(Undefined, Undefined)] }

----------------------------------------------------------------------------
(* The chat widget: handlers as functions of the widget state *)

ChatState == [chatHistory |-> chatHistory, chatInput |-> chatInput, quickReplies |-> quickReplies, chatReqs |-> chatReqs]

\* the entry is inserted before the first child instead of appended
addMessage_Prepend(s, who, text) ==
    [s EXCEPT !.chatHistory = <<[who |-> IF who = "bot" THEN "bot" ELSE "user", text |-> ToText(text)]>> \o @]

addMessage(s, who, text) ==
    [s EXCEPT !.chatHistory = Append(@, [who |-> IF who = "bot" THEN "bot" ELSE "user", text |-> ToText(text)])]

\* the old buttons are not removed (line 29 missing)
renderQuickReplies_NoClear(s, list) ==
    IF Falsy(list) \/ Len(list.v) = 0
    THEN s
    ELSE [s EXCEPT !.quickReplies = @ \o [i \in 1..Len(list.v) |-> list.v[i]]]

renderQuickReplies(s, list) ==
    LET cleared == [s EXCEPT !.quickReplies = <<>>]
    IN  IF Falsy(list) \/ Len(list.v) = 0
        THEN cleared
        ELSE [cleared EXCEPT !.quickReplies = @ \o [i \in 1..Len(list.v) |-> list.v[i]]]

\* the session id is read from local storage at every send
sendMessage_ReadsStorage(s, text) ==
    LET s1 == addMessage(s, "user", Str(text))
    IN  [s1 EXCEPT !.chatInput = <<>>,
                   !.chatReqs = Append(@, [session_id |-> storage, message |-> text,
                                           pc |-> "fetch", resp |-> NoResp,
                                           userIdx |-> Len(s1.chatHistory), botIdx |-> 0])]

\* the request is issued without the user entry being appended
sendMessage_NoEntry(s, text) ==
    [s EXCEPT !.chatInput = <<>>,
              !.chatReqs = Append(@, [session_id |-> sessionId, message |-> text,
                                      pc |-> "fetch", resp |-> NoResp,
                                      userIdx |-> Len(s.chatHistory), botIdx |-> 0])]

\* a call made while an earlier request is in flight is dropped
sendMessage_OneAtATime(s, text) ==
    IF \E r \in DOMAIN s.chatReqs : s.chatReqs[r].pc \in {"fetch", "json"}
    THEN s
    ELSE LET s1 == addMessage(s, "user", Str(text))
         IN  [s1 EXCEPT !.chatInput = <<>>,
                        !.chatReqs = Append(@, [session_id |-> sessionId, message |-> text,
                                                pc |-> "fetch", resp |-> NoResp,
                                                userIdx |-> Len(s1.chatHistory), botIdx |-> 0])]

\* sendMessage up to its first await: the user entry, the cleared input, the fetch.
\* userIdx and botIdx record where the entries of this call went (history).
sendMessage(s, text) ==
    LET s1 == addMessage(s, "user", Str(text))
    IN  [s1 EXCEPT !.chatInput = <<>>,
                   !.chatReqs = Append(@, [session_id |-> sessionId, message |-> text,
                                           pc |-> "fetch", resp |-> NoResp,
                                           userIdx |-> Len(s1.chatHistory), botIdx |-> 0])]

\* fetch settles: the promise of line 18 resolves with a response or rejects
fetchSettle(s, r, head) ==
    [s EXCEPT !.chatReqs[r].resp = head,
              !.chatReqs[r].pc = IF head.net = "fail" THEN "rejected" ELSE "json"]

\* res.json() settles with the body that arrived, then lines 24-25 run
\* the reply is appended twice
jsonSettle_Twice(s, r, resp) ==
    IF resp.body # "json" \/ resp.data.t = "null"
    THEN [s EXCEPT !.chatReqs[r].resp = resp, !.chatReqs[r].pc = "rejected"]
    ELSE LET s1 == addMessage(s, "bot", resp.data.reply)
             s2 == renderQuickReplies(addMessage(s1, "bot", resp.data.reply),
                                      IF Falsy(resp.data.quick_replies) THEN Arr(<<>>) ELSE resp.data.quick_replies)
         IN  [s2 EXCEPT !.chatReqs[r].resp = resp, !.chatReqs[r].pc = "done",
                        !.chatReqs[r].botIdx = Len(s1.chatHistory)]

jsonSettle(s, r, resp) ==
    IF resp.body # "json" \/ resp.data.t = "null"
    THEN [s EXCEPT !.chatReqs[r].resp = resp, !.chatReqs[r].pc = "rejected"]
    ELSE LET s1 == addMessage(s, "bot", resp.data.reply)
             s2 == renderQuickReplies(s1, IF Falsy(resp.data.quick_replies) THEN Arr(<<>>) ELSE resp.data.quick_replies)
         IN  [s2 EXCEPT !.chatReqs[r].resp = resp, !.chatReqs[r].pc = "done",
                        !.chatReqs[r].botIdx = Len(s1.chatHistory)]

\* the untrimmed value is sent
sendBtnClick_NoTrim(s) ==
    LET t == trim(s.chatInput)
    IN  IF t = <<>> THEN s ELSE sendMessage(s, s.chatInput)

sendBtnClick(s) ==
    LET t == trim(s.chatInput)
    IN  IF t = <<>> THEN s ELSE sendMessage(s, t)

chatInputKeydown(s, key) == IF key = "Enter" THEN sendBtnClick(s) ELSE s

quickBtnClick(s, i) == sendMessage(s, s.quickReplies[i])

\* the two bootstrap buttons in the other order
loadListener_Swapped(s) == renderQuickReplies(addMessage(s, "bot", Str(WelcomeText)), Arr(<<TomatoLabel, UploadLabel>>))

loadListener(s) == renderQuickReplies(addMessage(s, "bot", Str(WelcomeText)), Arr(BootstrapReplies))

----------------------------------------------------------------------------
(* Actions of the chat widget *)

SetChat(s, ev) ==
    /\ chatHistory' = s.chatHistory
    /\ chatInput' = s.chatInput
    /\ quickReplies' = s.quickReplies
    /\ chatReqs' = s.chatReqs
    /\ lastEvent' = ev
    /\ UNCHANGED <<storage, sessionId, sessionAtStart>>
    /\ UNCHANGED uploadVars

CanSend == Len(chatReqs) < MaxSends

\* the user edits the text of the input field
TypeInput ==
    \E t \in InputTexts :
        /\ t # chatInput
        /\ chatInput' = t
        /\ lastEvent' = "none"
        /\ UNCHANGED <<storage, sessionId, sessionAtStart, chatHistory, quickReplies, chatReqs, loaded>>
        /\ UNCHANGED uploadVars

\* the click is ignored while an upload is in flight
SendBtnClick_WhenNoUpload ==
    /\ uploadReqs = <<>>
    /\ CanSend
    /\ SetChat(sendBtnClick(ChatState), "click")
    /\ UNCHANGED loaded

SendBtnClick ==
    /\ CanSend
    /\ SetChat(sendBtnClick(ChatState), "click")
    /\ UNCHANGED loaded

ChatInputKeydown ==
    \E key \in Keys :
        /\ CanSend
        /\ SetChat(chatInputKeydown(ChatState, key), IF key = "Enter" THEN "enter" ELSE "key")
        /\ UNCHANGED loaded

QuickBtnClick ==
    \E i \in DOMAIN quickReplies :
        /\ CanSend
        /\ SetChat(quickBtnClick(ChatState, i), "quick")
        /\ UNCHANGED loaded

FetchSettle ==
    \E r \in DOMAIN chatReqs, head \in ChatHeads :
        /\ chatReqs[r].pc = "fetch"
        /\ SetChat(fetchSettle(ChatState, r, head), lastEvent)
        /\ UNCHANGED loaded

JsonSettle ==
    \E r \in DOMAIN chatReqs :
        \E resp \in ChatBodies(chatReqs[r].resp) :
            /\ chatReqs[r].pc = "json"
            /\ SetChat(jsonSettle(ChatState, r, resp), lastEvent)
        /\ UNCHANGED loaded

Load ==
    /\ ~loaded
    /\ loaded' = TRUE
    /\ SetChat(loadListener(ChatState), lastEvent)

\* the session key is issued and refreshed outside the reviewed code
StorageWrite ==
    \E x \in StorageValues :
        /\ x # storage
        /\ storage' = x
        /\ UNCHANGED <<lastEvent, sessionId, sessionAtStart, chatHistory, chatInput, quickReplies, chatReqs, loaded>>
        /\ UNCHANGED uploadVars

InitChat ==
    /\ storage \in StorageValues
    /\ sessionId = storage
    /\ sessionAtStart = storage
    /\ chatHistory = <<>>
    /\ chatInput = <<>>
    /\ quickReplies = <<>>
    /\ chatReqs = <<>>
    /\ loaded = FALSE

NextChat ==
    \/ TypeInput
    \/ SendBtnClick
    \/ ChatInputKeydown
    \/ QuickBtnClick
    \/ FetchSettle
    \/ JsonSettle
    \/ Load


----------------------------------------------------------------------------
(* The uploader and the result renderer *)

MaxReads == 2

MaxUploads == 2

Files == {"leaf-1.jpg", "leaf-2.jpg"}

NoFile == "null"

\* e.target.files / e.dataTransfer.files
FileLists == {<<>>, <<"leaf-1.jpg">>, <<"leaf-2.jpg", "leaf-1.jpg">>}

\* reader.readAsDataURL(file): the data URL of the file's bytes
DataURL(f) == <<"data:", f>>

Img(src) == [tag |-> "img", src |-> src, alt |-> "Preview"]

NoPreview == [tag |-> "none", src |-> <<>>, alt |-> ""]

Num(s) == [t |-> "number", v |-> s]

\* `${x}` in a template literal
Template(x) == IF x.t \in {"string", "number"} THEN x.v ELSE <<x.t>>

Result(plant, status, confidence, disease, symptoms, treatments, prevention, care_tips) ==
    [t |-> "object", plant |-> plant, status |-> status, confidence |-> confidence,
     disease |-> disease, symptoms |-> symptoms, treatments |-> treatments,
     prevention |-> prevention, care_tips |-> care_tips]

NoResult == [Result(Undefined, Undefined, Undefined, Undefined, Undefined, Undefined, Undefined, Undefined) EXCEPT !.t = "undefined"]

DiseasedResult ==
    Result(Str(<<"Tomato">>), Str(<<"Diseased">>), Num(<<"93">>), Str(<<"Early blight">>),
           Str(<<"Brown spots">>), Str(<<"Fungicide">>), Str(<<"Rotate crops">>), Undefined)

HealthyResult ==
    Result(Str(<<"Tomato">>), Str(<<"Healthy">>), Num(<<"88">>), Undefined, Undefined, Undefined, Undefined,
           Str(<<"Water weekly">>))

\* a status that differs from "Diseased" only in case, sent with the disease fields
LowerCaseResult == [DiseasedResult EXCEPT !.status = Str(<<"diseased">>)]

\* what fetch("/upload") and res.json() can produce: as ChatResp, with data [t, result]
UploadResp(net, ok, body, t, result) == [net |-> net, ok |-> ok, body |-> body, data |-> [t |-> t, result |-> result]]

NoUploadResp == UploadResp("none", FALSE, "none", "null", NoResult)

UploadHeads ==
    { UploadResp("fail", FALSE, "none", "null", NoResult),
      UploadResp("ok", TRUE, "none", "null", NoResult),
      UploadResp("ok", FALSE, "none", "null", NoResult) }

UploadBodies(head) ==
    IF head.ok
    THEN { [head EXCEPT !.body = "json", !.data = [t |-> "object", result |-> res]] :
               res \in {DiseasedResult, HealthyResult, LowerCaseResult} }
    ELSE { [head EXCEPT !.body = "garbage"],
           [head EXCEPT !.body = "json", !.data = [t |-> "object", result |-> NoResult]] }

\* the content #results has in the page before any result is rendered
InitialResults == <<[class |-> "template", children |-> <<>>]>>

UploadState ==
    [selectedFile |-> selectedFile, readers |-> readers, preview |-> preview,
     analyzeDisabled |-> analyzeDisabled, hover |-> hover, uploadReqs |-> uploadReqs,
     results |-> results, lastShown |-> lastShown, lastArrival |-> lastArrival]

Without(q, i) == SubSeq(q, 1, i - 1) \o SubSeq(q, i + 1, Len(q))

Line(tag, label, text) == [tag |-> tag, label |-> label, text |-> text]

\* the button is enabled outside the length test
handleFiles_AlwaysEnable(u, files) ==
    IF Len(files) > 0
    THEN [u EXCEPT !.selectedFile = files[1],
                   !.readers = Append(@, files[1]),
                   !.analyzeDisabled = FALSE]
    ELSE [u EXCEPT !.analyzeDisabled = FALSE]

handleFiles(u, files) ==
    IF Len(files) > 0
    THEN [u EXCEPT !.selectedFile = files[1],
                   !.readers = Append(@, files[1]),
                   !.analyzeDisabled = FALSE]
    ELSE u

\* reader.onload of the i-th pending reader
readerOnload(u, i) ==
    [u EXCEPT !.preview = Img(DataURL(u.readers[i])),
              !.readers = Without(@, i)]

dropAreaDragover(u) == [u EXCEPT !.hover = TRUE]

dropAreaDragleave(u) == [u EXCEPT !.hover = FALSE]

dropAreaDrop(u, files) == handleFiles([u EXCEPT !.hover = FALSE], files)

fileInputChange(u, files) == handleFiles(u, files)

\* the handler without its early return of line 41
analyzeBtnClick_NoGuard(u) ==
    [u EXCEPT !.uploadReqs = Append(@, [formData |-> <<[name |-> "file", value |-> u.selectedFile]>>,
                                        pc |-> "fetch", resp |-> NoUploadResp])]

\* the click handler up to its first await
analyzeBtnClick(u) ==
    IF u.selectedFile = NoFile
    THEN u
    ELSE [u EXCEPT !.uploadReqs = Append(@, [formData |-> <<[name |-> "file", value |-> u.selectedFile]>>,
                                             pc |-> "fetch", resp |-> NoUploadResp])]

\* the status is compared without regard to case
resultHtml_AnyCase(result) ==
    <<Line("h3", "Plant:", Template(result.plant)),
      Line("p", "Status:", Template(result.status)),
      Line("p", "Confidence:", Template(result.confidence) \o <<"%">>)>>
    \o (IF result.status \in {Str(<<"Diseased">>), Str(<<"diseased">>)}
        THEN <<Line("p", "Disease:", Template(result.disease)),
               Line("p", "Symptoms:", Template(result.symptoms)),
               Line("p", "Treatments:", Template(result.treatments)),
               Line("p", "Prevention:", Template(result.prevention))>>
        ELSE <<Line("p", "Care Tips:", Template(result.care_tips))>>)

\* the markup displayResults builds: the children of <div class="result-card">
resultHtml(result) ==
    <<Line("h3", "Plant:", Template(result.plant)),
      Line("p", "Status:", Template(result.status)),
      Line("p", "Confidence:", Template(result.confidence) \o <<"%">>)>>
    \o (IF result.status = Str(<<"Diseased">>)
        THEN <<Line("p", "Disease:", Template(result.disease)),
               Line("p", "Symptoms:", Template(result.symptoms)),
               Line("p", "Treatments:", Template(result.treatments)),
               Line("p", "Prevention:", Template(result.prevention))>>
        ELSE <<Line("p", "Care Tips:", Template(result.care_tips))>>)

\* the card is added to what the region holds
displayResults_Append(u, result) ==
    [u EXCEPT !.results = Append(@, [class |-> "result-card", children |-> resultHtml(result)])]

displayResults(u, result) ==
    [u EXCEPT !.results = <<[class |-> "result-card", children |-> resultHtml(result)]>>]

\* fetch settles: the promise of line 45 resolves with a response, or rejects and
\* ends the handler
uploadFetchSettle(u, r, head) ==
    IF head.net = "fail"
    THEN [u EXCEPT !.uploadReqs = Without(@, r)]
    ELSE [u EXCEPT !.uploadReqs[r].resp = head, !.uploadReqs[r].pc = "json"]

\* res.json() settles with the body that arrived, then line 51 runs and the
\* handler ends: displayResults throws on a missing result before it writes
uploadJsonSettle(u, r, resp) ==
    IF resp.body # "json" \/ resp.data.t = "null" \/ resp.data.result.t \in {"undefined", "null"}
    THEN [u EXCEPT !.uploadReqs = Without(@, r), !.lastArrival = "rejected"]
    ELSE [displayResults(u, resp.data.result) EXCEPT !.uploadReqs = Without(@, r),
                                                     !.lastShown = resp.data.result,
                                                     !.lastArrival = "rendered"]

----------------------------------------------------------------------------
(* Actions of the uploader *)

SetUpload(u, ev) ==
    /\ selectedFile' = u.selectedFile
    /\ readers' = u.readers
    /\ preview' = u.preview
    /\ analyzeDisabled' = u.analyzeDisabled
    /\ hover' = u.hover
    /\ uploadReqs' = u.uploadReqs
    /\ results' = u.results
    /\ lastShown' = u.lastShown
    /\ lastArrival' = u.lastArrival
    /\ lastEvent' = ev
    /\ UNCHANGED chatVars

CanRead == Len(readers) < MaxReads

\* fileSelectBtn click: fileInput.click() opens the picker and changes nothing
FileSelectBtnClick ==
    /\ SetUpload(UploadState, lastEvent)

FileInputChange ==
    \E files \in FileLists :
        /\ CanRead
        /\ SetUpload(fileInputChange(UploadState, files), IF files = <<>> THEN "noFiles" ELSE "files")

DropAreaDragover ==
    /\ SetUpload(dropAreaDragover(UploadState), lastEvent)

DropAreaDragleave ==
    /\ hover
    /\ SetUpload(dropAreaDragleave(UploadState), lastEvent)

DropAreaDrop ==
    \E files \in FileLists :
        /\ CanRead
        /\ SetUpload(dropAreaDrop(UploadState, files), IF files = <<>> THEN "noFiles" ELSE "files")

ReaderOnload ==
    \E i \in DOMAIN readers :
        /\ SetUpload(readerOnload(UploadState, i), lastEvent)

\* a disabled button dispatches no click
AnalyzeBtnClick ==
    /\ ~analyzeDisabled
    /\ Len(uploadReqs) < MaxUploads
    /\ SetUpload(analyzeBtnClick(UploadState), lastEvent)

UploadFetchSettle ==
    \E r \in DOMAIN uploadReqs, head \in UploadHeads :
        /\ uploadReqs[r].pc = "fetch"
        /\ SetUpload(uploadFetchSettle(UploadState, r, head), lastEvent)

UploadJsonSettle ==
    \E r \in DOMAIN uploadReqs :
        \E resp \in UploadBodies(uploadReqs[r].resp) :
            /\ uploadReqs[r].pc = "json"
            /\ SetUpload(uploadJsonSettle(UploadState, r, resp), lastEvent)

\* analyzeBtn is disabled in the page markup
InitAnalyzeDisabled == TRUE

InitUpload ==
    /\ selectedFile = NoFile
    /\ readers = <<>>
    /\ preview = NoPreview
    /\ analyzeDisabled = InitAnalyzeDisabled
    /\ hover = FALSE
    /\ uploadReqs = <<>>
    /\ results = InitialResults
    /\ lastShown = NoResult
    /\ lastArrival = "none"

NextUpload ==
    \/ FileSelectBtnClick
    \/ FileInputChange
    \/ DropAreaDragover
    \/ DropAreaDragleave
    \/ DropAreaDrop
    \/ ReaderOnload
    \/ AnalyzeBtnClick
    \/ UploadFetchSettle
    \/ UploadJsonSettle

----------------------------------------------------------------------------
(* Specifications *)

Init == InitChat /\ InitUpload /\ lastEvent = "none"

\* the chat widget alone
ChatSpec == Init /\ [][NextChat]_vars

\* the uploader alone
UploadSpec == Init /\ [][NextUpload]_vars

\* the chat widget while the session key is rewritten from outside
SessionSpec == Init /\ [][NextChat \/ StorageWrite]_vars

Next == NextChat \/ StorageWrite \/ NextUpload

Spec == Init /\ [][Next]_vars

\* the chat widget with a server that answers and a browser that runs every
\* continuation that is ready
FairChatSpec == ChatSpec /\ WF_vars(FetchSettle) /\ WF_vars(JsonSettle)

\* the page starts with no session id in storage
InitNoSession == Init /\ storage = Null

\* one upload request waits for its response and the uploader has done
\* nothing else since leaf-1.jpg was selected and previewed
UploadPending ==
    /\ selectedFile = "leaf-1.jpg"
    /\ readers = <<>>
    /\ preview = Img(DataURL(selectedFile))
    /\ ~analyzeDisabled
    /\ ~hover
    /\ Len(uploadReqs) = 1
    /\ uploadReqs[1].pc = "fetch"
    /\ results = InitialResults
    /\ lastShown = NoResult
    /\ lastArrival = "none"

\* one chat request waits for its response and the widget has done nothing
\* else since "hi" was sent
ChatPending ==
    /\ ~loaded
    /\ chatInput = <<>>
    /\ quickReplies = <<>>
    /\ Len(chatReqs) = 1
    /\ chatReqs[1].pc = "fetch"
    /\ chatReqs[1].message = <<"hi">>

\* the chat widget runs before its first send, and while an upload is pending
ChatRuns == (InitUpload /\ chatReqs = <<>> /\ ~loaded) \/ UploadPending

\* the uploader runs while a chat request is pending
UploadRuns == ChatPending

OverlapNext ==
    \/ ChatRuns /\ TypeInput
    \/ ChatRuns /\ SendBtnClick
    \/ ChatRuns /\ ChatInputKeydown
    \/ ChatRuns /\ QuickBtnClick
    \/ ChatRuns /\ FetchSettle
    \/ ChatRuns /\ JsonSettle
    \/ ChatRuns /\ Load
    \/ UploadRuns /\ FileInputChange
    \/ UploadRuns /\ ReaderOnload
    \/ UploadRuns /\ AnalyzeBtnClick
    \/ UploadRuns /\ UploadFetchSettle
    \/ UploadRuns /\ UploadJsonSettle

\* both flows in one page: each flow runs while the other one has a request
\* whose response does not arrive; files are selected through the file input
OverlapSpec == InitNoSession /\ [][OverlapNext]_vars

NoAnswerNext ==
    \/ TypeInput
    \/ SendBtnClick
    \/ ChatInputKeydown
    \/ FileInputChange
    \/ ReaderOnload
    \/ AnalyzeBtnClick

\* both flows in one page with a server that never answers: every request
\* issued stays in flight
NoAnswerSpec == InitNoSession /\ [][NoAnswerNext]_vars

----------------------------------------------------------------------------
(* Helpers of the properties *)

IsPrefix(p, q) == Len(p) <= Len(q) /\ SubSeq(q, 1, Len(p)) = p

Entries(who) == {i \in DOMAIN chatHistory : chatHistory[i].who = who}

AllWhitespace(x) == \A k \in DOMAIN x : x[k] \in Whitespace

\* t is s without its leading and trailing whitespace
IsTrimOf(t, s) ==
    \E a \in 0..Len(s), b \in 0..Len(s) :
        /\ a <= b
        /\ t = SubSeq(s, a + 1, b)
        /\ AllWhitespace(SubSeq(s, 1, a))
        /\ AllWhitespace(SubSeq(s, b + 1, Len(s)))
        /\ t # <<>> => (t[1] \notin Whitespace /\ t[Len(t)] \notin Whitespace)

Settled(r) == chatReqs[r].pc \in {"done", "rejected"}

BotEntry(x) == [who |-> "bot", text |-> ToText(x)]

UserEntry(text) == [who |-> "user", text |-> text]

----------------------------------------------------------------------------
(* Properties *)

\* C1: once no file read is pending, the preview shows the image of the
\* file that was selected last (selectedFile), whatever the order in which
\* the onload callbacks fired.
C1_PreviewShowsLatestFile ==
    (selectedFile # NoFile /\ readers = <<>>) => preview = Img(DataURL(selectedFile))

\* C2: a send appends exactly one user entry with the text sent; the
\* transcript only grows at its end; every request that was answered has
\* exactly one bot entry, after its user entry, holding the reply; and again
\* and again all requests issued so far are settled, each with that bot entry
\* when its answer parsed, and a settled request stays settled.
C2_SendStep ==
    Len(chatReqs') = Len(chatReqs) + 1 =>
        chatHistory' = Append(chatHistory, UserEntry(chatReqs'[Len(chatReqs')].message))

C2_Transcript ==
    /\ Cardinality(Entries("user")) = Len(chatReqs)
    /\ Cardinality(Entries("bot")) = (IF loaded THEN 1 ELSE 0) + Cardinality({r \in DOMAIN chatReqs : chatReqs[r].pc = "done"})
    /\ \A r \in DOMAIN chatReqs :
        /\ chatHistory[chatReqs[r].userIdx] = UserEntry(chatReqs[r].message)
        /\ chatReqs[r].pc = "done" =>
              /\ chatReqs[r].botIdx > chatReqs[r].userIdx
              /\ chatHistory[chatReqs[r].botIdx] = BotEntry(chatReqs[r].resp.data.reply)
        /\ chatReqs[r].pc # "done" => chatReqs[r].botIdx = 0
        /\ \A q \in DOMAIN chatReqs :
              q # r => chatReqs[q].userIdx # chatReqs[r].userIdx
                       /\ (chatReqs[r].pc = "done" /\ chatReqs[q].pc = "done" => chatReqs[q].botIdx # chatReqs[r].botIdx)

C2_Answered(r) ==
    /\ r \in DOMAIN chatReqs
    /\ Settled(r)
    /\ (chatReqs[r].resp.body = "json" /\ chatReqs[r].resp.data.t = "object") => chatReqs[r].pc = "done"

C2_Stable == \A r \in DOMAIN chatReqs : C2_Answered(r) => C2_Answered(r)'

\* C2: every step is an append-only step in which a send adds its one user
\* entry, every answered request has its one bot entry after its user entry,
\* and all requests issued are settled again and again.
C2_SendThenReply ==
    /\ [][C2_SendStep /\ IsPrefix(chatHistory, chatHistory') /\ C2_Stable]_vars
    /\ []C2_Transcript
    /\ []<>(\A r \in DOMAIN chatReqs : C2_Answered(r))

C2_Witness ==
    \E r \in DOMAIN chatReqs :
        /\ chatReqs[r].pc = "done"
        /\ chatReqs[r].message = UploadLabel
        /\ chatHistory[chatReqs[r].userIdx] = UserEntry(UploadLabel)
        /\ chatHistory[chatReqs[r].botIdx] = [who |-> "bot", text |-> ReplyText]

\* C3: clicking the quick-reply button labelled q gives the same state as
\* putting q in the chat input and clicking send, for every button shown.
C3_QuickReplyEqualsTyping ==
    \A i \in DOMAIN quickReplies :
        quickBtnClick(ChatState, i) = sendBtnClick([ChatState EXCEPT !.chatInput = quickReplies[i]])

\* C4: once the load event has fired and as long as no request has been
\* issued, the transcript is exactly the bot welcome entry and the quick
\* replies are exactly the two fixed buttons, in order; the load step issues
\* no request.
C4_AfterLoad ==
    (loaded /\ chatReqs = <<>>) =>
        /\ chatHistory = <<[who |-> "bot", text |-> <<"Hello -- I can help with crop care, uploading, or disease symptoms. Try a quick suggestion.">>]>>
        /\ quickReplies = <<(<<"How to upload a photo?">>), (<<"Tomato care tips">>)>>

\* C4: after load and before any request the transcript is the welcome entry
\* and the quick replies are the two fixed buttons; load issues no request.
C4_LoadBootstrap ==
    /\ []C4_AfterLoad
    /\ [][(~loaded /\ loaded') => chatReqs' = chatReqs]_vars

C4_Witness ==
    /\ loaded
    /\ chatReqs = <<>>
    /\ Len(chatHistory) = 1
    /\ Len(quickReplies) = 2

\* C5: the send button and Enter, on an input whose trimmed text t is not
\* empty, append one user entry with t, clear the input and issue one request
\* carrying t; on an empty or whitespace-only input they change nothing. Any
\* other key changes nothing.
C5_SendEffect(h) ==
    \E t \in {SubSeq(chatInput, a + 1, b) : a \in 0..Len(chatInput), b \in 0..Len(chatInput)} :
        /\ IsTrimOf(t, chatInput)
        /\ IF t = <<>>
           THEN h = ChatState
           ELSE /\ h.chatHistory = Append(chatHistory, UserEntry(t))
                /\ h.chatInput = <<>>
                /\ h.quickReplies = quickReplies
                /\ Len(h.chatReqs) = Len(chatReqs) + 1
                /\ SubSeq(h.chatReqs, 1, Len(chatReqs)) = chatReqs
                /\ h.chatReqs[Len(h.chatReqs)].message = t
                /\ h.chatReqs[Len(h.chatReqs)].pc = "fetch"

\* C5: click and Enter send the trimmed text exactly once, or do nothing on a
\* blank input; another key does nothing.
C5_EnterSendsOnce ==
    /\ C5_SendEffect(sendBtnClick(ChatState))
    /\ C5_SendEffect(chatInputKeydown(ChatState, "Enter"))
    /\ chatInputKeydown(ChatState, "a") = ChatState

C5_Witness ==
    /\ lastEvent = "enter"
    /\ \E r \in DOMAIN chatReqs : chatReqs[r].message = <<"hi">> /\ chatReqs[r].userIdx = Len(chatHistory)
    /\ chatInput = <<>>

\* C6: the card shows plant, status and confidence; it shows disease,
\* symptoms, treatments and prevention and no care tips exactly when the
\* status of the rendered result is the string "Diseased", and otherwise the
\* care tips and none of those four.
C6_Labels == {results[1].children[i].label : i \in DOMAIN results[1].children}

C6_Shows(label, text) ==
    Cardinality({i \in DOMAIN results[1].children :
                    results[1].children[i].label = label /\ results[1].children[i].text = text}) = 1

\* C6: the card rendered last shows the disease fields and no care tips
\* exactly when the status is "Diseased", otherwise the care tips only.
C6_DiseaseBranch ==
    results # InitialResults =>
        /\ results[1].class = "result-card"
        /\ C6_Shows("Plant:", Template(lastShown.plant))
        /\ C6_Shows("Status:", Template(lastShown.status))
        /\ C6_Shows("Confidence:", Template(lastShown.confidence) \o <<"%">>)
        /\ IF lastShown.status.t = "string" /\ lastShown.status.v = <<"Diseased">>
           THEN /\ C6_Shows("Disease:", Template(lastShown.disease))
                /\ C6_Shows("Symptoms:", Template(lastShown.symptoms))
                /\ C6_Shows("Treatments:", Template(lastShown.treatments))
                /\ C6_Shows("Prevention:", Template(lastShown.prevention))
                /\ "Care Tips:" \notin C6_Labels
           ELSE /\ C6_Shows("Care Tips:", Template(lastShown.care_tips))
                /\ C6_Labels \cap {"Disease:", "Symptoms:", "Treatments:", "Prevention:"} = {}

C6_Witness ==
    /\ results # InitialResults
    /\ lastShown.status = Str(<<"diseased">>)
    /\ "Care Tips:" \in C6_Labels

\* C7: whenever Analyze is enabled a file is selected; Analyze goes from
\* disabled to enabled only in a selection step that delivers a file; a
\* selection with an empty file list leaves selectedFile, the preview, the
\* pending reads and the Analyze state as they are.
C7_EmptySelection(h) ==
    /\ h.selectedFile = selectedFile
    /\ h.preview = preview
    /\ h.readers = readers
    /\ h.analyzeDisabled = analyzeDisabled

C7_Enabled ==
    /\ ~analyzeDisabled => selectedFile \in Files
    /\ C7_EmptySelection(fileInputChange(UploadState, <<>>))
    /\ C7_EmptySelection(dropAreaDrop(UploadState, <<>>))

\* C7: Analyze enabled implies a selected file, it is enabled only by a
\* selection that delivers a file, and an empty selection changes nothing.
C7_AnalyzeNeedsFile ==
    /\ []C7_Enabled
    /\ [][(analyzeDisabled /\ ~analyzeDisabled') =>
             (lastEvent' = "files" /\ selectedFile' \in Files /\ Len(readers') = Len(readers) + 1)]_vars

C7_Witness ==
    /\ lastEvent = "noFiles"
    /\ ~analyzeDisabled
    /\ selectedFile = "leaf-2.jpg"
    /\ preview = Img(DataURL("leaf-2.jpg"))

\* C8: a chat request that failed (no response, a non-2xx status, a body
\* that does not parse or lacks the reply) has no bot entry.
C8_Failed(resp) ==
    \/ resp.net = "fail"
    \/ (resp.net = "ok" /\ ~resp.ok)
    \/ resp.body = "garbage"
    \/ (resp.body = "json" /\ (resp.data.t # "object" \/ resp.data.reply.t # "string"))

\* C8: a settled chat request whose response failed has no bot entry.
C8_FailureShowsNothing ==
    \A r \in DOMAIN chatReqs :
        (Settled(r) /\ C8_Failed(chatReqs[r].resp)) => chatReqs[r].botIdx = 0

\* C9: every request carries the session id read from local storage when
\* the script started; the session id never changes and only the outside
\* writes the storage key.
C9_Session ==
    /\ sessionId = sessionAtStart
    /\ \A r \in DOMAIN chatReqs : chatReqs[r].session_id = sessionAtStart

\* C9: every request carries the session id read at script start, which
\* never changes, and no step of the widget writes the storage key.
C9_SessionFixed ==
    /\ []C9_Session
    /\ [][sessionId' = sessionId /\ (storage' # storage => StorageWrite)]_vars

C9_Witness ==
    /\ Len(chatReqs) = 2
    /\ storage # sessionAtStart
    /\ sessionAtStart = Null
    /\ \A r \in DOMAIN chatReqs : chatReqs[r].session_id = Null

\* C10: the quick replies shown are the list of the response that arrived
\* last (none when it had no list or an empty one), or the two bootstrap
\* buttons when the load event came after it, or none before both; only a
\* response or the load event changes them.
C10_LastBot == CHOOSE i \in Entries("bot") : \A j \in Entries("bot") : j <= i

C10_ListOf(x) == IF x.t = "array" THEN x.v ELSE <<>>

C10_Shown ==
    IF Entries("bot") = {}
    THEN quickReplies = <<>>
    ELSE IF \E r \in DOMAIN chatReqs : chatReqs[r].botIdx = C10_LastBot
         THEN \A r \in DOMAIN chatReqs :
                  chatReqs[r].botIdx = C10_LastBot =>
                      quickReplies = C10_ListOf(chatReqs[r].resp.data.quick_replies)
         ELSE quickReplies = <<(<<"How to upload a photo?">>), (<<"Tomato care tips">>)>>

\* C10: the quick replies are those of the response rendered last (or the
\* bootstrap pair), and only a response or the load event changes them.
C10_QuickRepliesFromLastResponse ==
    /\ []C10_Shown
    /\ [][quickReplies' # quickReplies =>
             \/ ~loaded /\ loaded'
             \/ \E r \in DOMAIN chatReqs : chatReqs[r].pc = "json" /\ chatReqs'[r].pc = "done"]_vars

C10_Witness ==
    /\ loaded
    /\ quickReplies = <<(<<" ", "Soil", " ">>), <<>>>>
    /\ \E r \in DOMAIN chatReqs : chatReqs[r].botIdx = Len(chatHistory) /\ chatReqs[r].botIdx > 2

\* C11: in every state a click on Analyze adds exactly one request, whose
\* form data is the single part "file" holding selectedFile, and adds none
\* when selectedFile is null, and changes nothing else; a file selection
\* leaves the requests alone; and in every step the requests in flight keep
\* the form data they were issued with: a step adds one request carrying the
\* file selected before it, or ends one handler, or alters no form data.
C11_Request(f) ==
    [formData |-> <<[name |-> "file", value |-> f]>>, pc |-> "fetch", resp |-> NoUploadResp]

C11_Forms(q) == [r \in DOMAIN q |-> q[r].formData]

C11_Click ==
    /\ LET after == analyzeBtnClick(UploadState)
       IN  /\ [after EXCEPT !.uploadReqs = uploadReqs] = UploadState
           /\ after.uploadReqs = IF selectedFile = NoFile
                                 THEN uploadReqs
                                 ELSE Append(uploadReqs, C11_Request(selectedFile))
    /\ \A files \in FileLists :
          /\ fileInputChange(UploadState, files).uploadReqs = uploadReqs
          /\ dropAreaDrop(UploadState, files).uploadReqs = uploadReqs
    /\ \A r \in DOMAIN uploadReqs :
          /\ Len(uploadReqs[r].formData) = 1
          /\ uploadReqs[r].formData[1].name = "file"
          /\ uploadReqs[r].formData[1].value \in Files

C11_Step ==
    /\ \/ C11_Forms(uploadReqs') = C11_Forms(uploadReqs)
       \/ \E r \in DOMAIN uploadReqs : uploadReqs' = Without(uploadReqs, r)
       \/ /\ selectedFile # NoFile
          /\ selectedFile' = selectedFile
          /\ uploadReqs' = Append(uploadReqs, C11_Request(selectedFile))
    /\ selectedFile' # selectedFile => uploadReqs' = uploadReqs

\* C11: Analyze issues one request carrying the file selected at the click,
\* none without a file, and a later selection never changes a request in
\* flight.
C11_AnalyzeSendsSelectedFile ==
    /\ []C11_Click
    /\ [][C11_Step]_vars

C11_Witness ==
    /\ selectedFile = "leaf-2.jpg"
    /\ lastEvent = "files"
    /\ \E r \in DOMAIN uploadReqs :
          uploadReqs[r].pc = "fetch" /\ uploadReqs[r].formData = <<[name |-> "file", value |-> "leaf-1.jpg"]>>

\* C12 (as stated): the results region holds its initial content until a
\* response arrives, and from then on exactly the one card of the response
\* that arrived last.
C12_ShowsLastArrived ==
    IF lastArrival = "none"
    THEN results = InitialResults
    ELSE /\ lastArrival = "rendered"
         /\ results = <<[class |-> "result-card", children |-> resultHtml(lastShown)]>>

C12_Card(result) == [class |-> "result-card", children |-> resultHtml(result)]

C12_Region ==
    /\ Len(results) = 1
    /\ results = IF lastShown = NoResult THEN InitialResults ELSE <<C12_Card(lastShown)>>
    /\ lastArrival = "rendered" => lastShown # NoResult
    /\ lastArrival = "none" => lastShown = NoResult
    /\ \A res \in {DiseasedResult, HealthyResult, LowerCaseResult} :
          displayResults(UploadState, res).results = <<C12_Card(res)>>

\* C12 (amended): every displayResults call that completes replaces the
\* whole region, so the region holds exactly one element: the card of the
\* response that was rendered last, that is of the last response that
\* carried a result, and its initial content while no response has been
\* rendered; a response without a result leaves the region as it was, and
\* only the handling of a response changes the region.
C12_ShowsLastRendered ==
    /\ []C12_Region
    /\ [][/\ results' # results => (Len(uploadReqs') < Len(uploadReqs) /\ lastArrival' = "rendered")
          /\ (Len(uploadReqs') < Len(uploadReqs) /\ lastArrival' = "rejected" /\ lastArrival = "rendered")
                 => results' = results]_vars

C12_Witness ==
    /\ lastArrival = "rejected"
    /\ lastShown = HealthyResult
    /\ results = <<C12_Card(HealthyResult)>>

\* C13: what each chat handler can do to the widget, from the widget's own
\* state alone, and what each uploader handler can do to the uploader, from
\* the uploader's own state alone.
C13_ChatEffect(after) ==
    \/ \E r \in DOMAIN chatReqs :
          \/ chatReqs[r].pc = "json" /\ \E resp \in ChatBodies(chatReqs[r].resp) : after = jsonSettle(ChatState, r, resp)
          \/ chatReqs[r].pc = "fetch" /\ \E head \in ChatHeads : after = fetchSettle(ChatState, r, head)
    \/ \E t \in InputTexts : after = [ChatState EXCEPT !.chatInput = t]
    \/ after = sendBtnClick(ChatState)
    \/ after = loadListener(ChatState)
    \/ \E key \in Keys : after = chatInputKeydown(ChatState, key)
    \/ \E i \in DOMAIN quickReplies : after = quickBtnClick(ChatState, i)

C13_UploadEffect(after) ==
    \/ \E r \in DOMAIN uploadReqs :
          \/ uploadReqs[r].pc = "json" /\ \E resp \in UploadBodies(uploadReqs[r].resp) : after = uploadJsonSettle(UploadState, r, resp)
          \/ uploadReqs[r].pc = "fetch" /\ \E head \in UploadHeads : after = uploadFetchSettle(UploadState, r, head)
    \/ \E files \in FileLists : after = fileInputChange(UploadState, files) \/ after = dropAreaDrop(UploadState, files)
    \/ \E i \in DOMAIN readers : after = readerOnload(UploadState, i)
    \/ after = dropAreaDragover(UploadState)
    \/ after = dropAreaDragleave(UploadState)
    \/ after = analyzeBtnClick(UploadState)

\* every chat action is enabled whenever the widget's own state allows it
C13_ChatEnabled ==
    /\ ENABLED TypeInput
    /\ CanSend => (ENABLED SendBtnClick /\ ENABLED ChatInputKeydown)
    /\ (CanSend /\ quickReplies # <<>>) => ENABLED QuickBtnClick
    /\ (\E r \in DOMAIN chatReqs : chatReqs[r].pc = "fetch") => ENABLED FetchSettle
    /\ (\E r \in DOMAIN chatReqs : chatReqs[r].pc = "json") => ENABLED JsonSettle
    /\ ~loaded => ENABLED Load

\* every uploader action is enabled whenever the uploader's own state allows it
C13_UploadEnabled ==
    /\ ENABLED FileSelectBtnClick
    /\ ENABLED DropAreaDragover
    /\ CanRead => (ENABLED FileInputChange /\ ENABLED DropAreaDrop)
    /\ readers # <<>> => ENABLED ReaderOnload
    /\ (~analyzeDisabled /\ Len(uploadReqs) < MaxUploads) => ENABLED AnalyzeBtnClick
    /\ (\E r \in DOMAIN uploadReqs : uploadReqs[r].pc = "fetch") => ENABLED UploadFetchSettle
    /\ (\E r \in DOMAIN uploadReqs : uploadReqs[r].pc = "json") => ENABLED UploadJsonSettle

C13_Step ==
    /\ chatVars' # chatVars =>
          /\ uploadVars' = uploadVars
          /\ C13_ChatEffect(ChatState')
    /\ uploadVars' # uploadVars =>
          /\ chatVars' = chatVars
          /\ C13_UploadEffect(UploadState')

\* C13: the two flows do not block or alter each other: with an upload
\* request pending every chat action (typing, send, Enter, quick reply,
\* response arrival, load) is enabled exactly as the widget's own state
\* allows, changes nothing of the uploader, and does to the widget what its
\* handler does from the widget's state alone; and the same holds of every
\* uploader action (selection, drop, preview, Analyze, response arrival and
\* rendering) with a chat request pending.
C13_FlowsIndependent ==
    /\ [](uploadReqs # <<>> => C13_ChatEnabled)
    /\ []((\E r \in DOMAIN chatReqs : chatReqs[r].pc \in {"fetch", "json"}) => C13_UploadEnabled)
    /\ [][C13_Step]_vars

C13_Witness ==
    /\ UploadPending
    /\ lastEvent = "enter"
    /\ Len(chatReqs) = 2
    /\ chatReqs[1].pc = "fetch"
    /\ chatReqs[2].pc = "done"
    /\ chatHistory[Len(chatHistory)].who = "bot"

\* C14: there is no in-flight guard: whatever requests are pending, a
\* sendMessage call adds one more request at its fetch and leaves the
\* pending ones as they are, a send click with non-blank input and an
\* Enter key do so too, and the send actions stay enabled; likewise a click
\* on Analyze with a file selected adds one more upload request at its
\* fetch, and stays enabled.
C14_Pending(q) == {r \in DOMAIN q : q[r].pc \in {"fetch", "json"}}

C14_OneMore(before, after) ==
    /\ Len(after) = Len(before) + 1
    /\ SubSeq(after, 1, Len(before)) = before
    /\ after[Len(after)].pc = "fetch"
    /\ Cardinality(C14_Pending(after)) = Cardinality(C14_Pending(before)) + 1

C14_Accepts ==
    /\ C14_OneMore(chatReqs, sendMessage(ChatState, <<"hi">>).chatReqs)
    /\ trim(chatInput) # <<>> =>
          /\ C14_OneMore(chatReqs, sendBtnClick(ChatState).chatReqs)
          /\ C14_OneMore(chatReqs, chatInputKeydown(ChatState, "Enter").chatReqs)
    /\ CanSend => (ENABLED SendBtnClick /\ ENABLED ChatInputKeydown)
    /\ selectedFile # NoFile => C14_OneMore(uploadReqs, analyzeBtnClick(UploadState).uploadReqs)
    /\ (~analyzeDisabled /\ Len(uploadReqs) < MaxUploads) => ENABLED AnalyzeBtnClick

\* C14: a send or an Analyze click made while a request of its flow is
\* pending is accepted and issues one more concurrent request.
C14_NoInFlightGuard ==
    /\ []C14_Accepts
    /\ [][/\ (lastEvent' \in {"click", "enter"} /\ trim(chatInput) # <<>>) => C14_OneMore(chatReqs, chatReqs')
          /\ Len(uploadReqs') > Len(uploadReqs) => C14_OneMore(uploadReqs, uploadReqs')]_vars

\* two chat requests and two upload requests are in flight at once
C14_Witness ==
    /\ Cardinality(C14_Pending(chatReqs)) = 2
    /\ Cardinality(C14_Pending(uploadReqs)) = 2
    /\ lastEvent \in {"click", "enter"}

\* C15: the user entry of every request issued, in flight or settled, is in
\* the transcript at the place it was appended.
C15_EntryShown ==
    \A r \in DOMAIN chatReqs :
        /\ chatReqs[r].userIdx \in DOMAIN chatHistory
        /\ chatHistory[chatReqs[r].userIdx] = UserEntry(chatReqs[r].message)

\* the step that issues a request appends its user entry and clears the
\* input while the request is still at its fetch, and no step moves or
\* changes the user entry of a request issued earlier
C15_Step ==
    /\ Len(chatReqs') > Len(chatReqs) =>
          /\ Len(chatReqs') = Len(chatReqs) + 1
          /\ chatReqs'[Len(chatReqs')].pc = "fetch"
          /\ chatReqs'[Len(chatReqs')].resp = NoResp
          /\ chatReqs'[Len(chatReqs')].userIdx = Len(chatHistory) + 1
          /\ chatHistory' = Append(chatHistory, UserEntry(chatReqs'[Len(chatReqs')].message))
          /\ chatInput' = <<>>
    /\ \A r \in DOMAIN chatReqs :
          /\ r \in DOMAIN chatReqs'
          /\ chatReqs'[r].userIdx = chatReqs[r].userIdx
          /\ chatReqs'[r].userIdx \in DOMAIN chatHistory'
          /\ chatHistory'[chatReqs'[r].userIdx] = chatHistory[chatReqs[r].userIdx]

\* C15: sendMessage appends the user entry and clears the input in the
\* step that issues the request, before any response: whenever a request
\* is in flight its user entry is in the transcript, and it stays there in
\* every later step, whether or not a response arrives.
C15_UserEntryBeforeResponse ==
    /\ []C15_EntryShown
    /\ [][C15_Step]_vars

C15_Witness ==
    /\ lastEvent = "click"
    /\ chatInput = <<>>
    /\ \E r \in DOMAIN chatReqs :
          /\ chatReqs[r].pc = "fetch"
          /\ chatReqs[r].userIdx = Len(chatHistory)
          /\ chatHistory[Len(chatHistory)] = UserEntry(<<"hi">>)

\* C16: the bot entries are the replies, one per answered request and each
\* after the user entry of its request, plus the one welcome entry once the
\* page has loaded; so the replies are never more than the user entries.
C16_Replies == {i \in Entries("bot") : \E r \in DOMAIN chatReqs : chatReqs[r].botIdx = i}

C16_Welcome == Entries("bot") \ C16_Replies

C16_Counts ==
    /\ Cardinality(C16_Welcome) = (IF loaded THEN 1 ELSE 0)
    /\ \A i \in C16_Welcome : chatHistory[i].text = WelcomeText
    /\ Cardinality(Entries("bot")) - Cardinality(C16_Welcome) <= Cardinality(Entries("user"))
    /\ \A i \in C16_Replies :
          \E r \in DOMAIN chatReqs :
              /\ chatReqs[r].botIdx = i
              /\ chatReqs[r].pc = "done"
              /\ chatReqs[r].userIdx \in 1..(i - 1)
              /\ chatHistory[chatReqs[r].userIdx] = UserEntry(chatReqs[r].message)
              /\ \A q \in DOMAIN chatReqs : chatReqs[q].botIdx = i => q = r

\* a bot entry is appended only by the load listener or by the arrival of
\* the response of a request that sendMessage issued in an earlier step
C16_Step ==
    (Len(chatHistory') > Len(chatHistory) /\ chatHistory'[Len(chatHistory')].who = "bot") =>
        /\ Len(chatHistory') = Len(chatHistory) + 1
        /\ \/ ~loaded /\ loaded'
           \/ \E r \in DOMAIN chatReqs :
                 /\ chatReqs[r].pc = "json"
                 /\ chatReqs'[r].pc = "done"
                 /\ chatReqs'[r].botIdx = Len(chatHistory')

\* C16: in every state the bot replies (the welcome entry apart) are at
\* most as many as the user entries, each reply comes after the user entry
\* of the request it answers, and a reply is appended only for a request
\* that sendMessage issued before.
C16_RepliesFollowSends ==
    /\ []C16_Counts
    /\ [][C16_Step]_vars

C16_Witness ==
    /\ loaded
    /\ Cardinality(Entries("user")) = 2
    /\ Cardinality(Entries("bot")) = 3
    /\ chatHistory[1].who = "user"

\* C17: of any two answered requests, the one whose user entry comes first
\* in the transcript also has its bot reply first.
C17_RepliesInSendOrder ==
    \A r \in DOMAIN chatReqs, q \in DOMAIN chatReqs :
        (chatReqs[r].pc = "done" /\ chatReqs[q].pc = "done" /\ chatReqs[r].userIdx < chatReqs[q].userIdx)
            => chatReqs[r].botIdx < chatReqs[q].botIdx

====
